---- MODULE Spec2Model ----
(***************************************************************************)
(* Model of python-observer: src/observer/observer.py (and its older copy  *)
(* src/observer.py, which has the same Observable).                        *)
(*                                                                         *)
(* An Observable keeps a set of observers; attach and detach change the    *)
(* set, notify iterates over it and calls update on each member.  The      *)
(* callbacks (update) are application code: while one runs it may call     *)
(* attach or detach on any Observable, return, or raise.                   *)
(*                                                                         *)
(* The file is written for Python 2 (`__metaclass__ = ABCMeta`) and runs   *)
(* under Python 3 as well, where that line is an ordinary class attribute  *)
(* and Observer is a plain class.  Which interpreter runs the code is      *)
(* chosen in the initial state (abcmeta).                                  *)
(*                                                                         *)
(* call and lastOp record what the last notify call and the last attach or *)
(* detach call did; the properties below are stated on them.               *)
(***************************************************************************)
EXTENDS Integers, FiniteSets, Sequences, TLC

(***************************************************************************)
(* The objects of the model.                                               *)
(*   s1, s2 : instances of a class that inherits Observer and defines      *)
(*            update (NewValueSubscriber of the demo);                     *)
(*   duck   : an instance of a class that defines update and does not      *)
(*            inherit Observer;                                            *)
(*   plain  : an instance of a class with no update, not inheriting        *)
(*            Observer.                                                    *)
(***************************************************************************)
Subscribers == {"s1", "s2"}

Ducks == {"duck"}

Plains == {"plain"}

Objects == Subscribers \cup Ducks \cup Plains

Observables == {"o1", "o2"}

\* notify(*new_state): the tuples of arguments the application passes
Payloads == {<<>>, <<5>>, <<5, 6>>}

\* ... in the world with two Observables, where the payload plays no part
PayloadsTwo == {<<5>>}

None == "None"

\* Cap on the update invocations of one notify call: a callback that keeps
\* swapping members can keep the iteration going for ever.
MaxUpdates == 3

\* Cap on the attach/detach calls the callbacks make during one notify call,
\* in the world with one Observable and in the world with two.
MaxReentrant == 2

MaxReentrantTwo == 1

\* Caps on the number of Observer objects constructed: where the application
\* also attaches, detaches and notifies, and where it only constructs.
MaxConstructed == 3

MaxConstructedNames == 11

VARIABLES
    abcmeta,    \* TRUE: the interpreter honours `__metaclass__ = ABCMeta`
                \* (Python 2); FALSE: it ignores it (Python 3)
    observers,  \* Observable._observers, one set per constructed Observable
    pc,         \* "idle": no call active; "iter": notify is between two
                \* updates; "update": an observer's update is running
    call,       \* the notify call that is running, or the last one
    lastOp,     \* the last attach or detach call and its outcome
    object_counter, \* Observer._object_counter, the class attribute
    made,       \* the Observer objects the application holds: for each of
                \* s1, s2 whether it is constructed, its class, the name
                \* argument it was given and its name attribute
    constructed, \* the number of Observer.__init__ calls made so far
    recent      \* per Observable, the objects whose most recent attach or
                \* detach call on it was an attach call

\* the Observer objects and the counter of their class
heap == <<object_counter, made, constructed>>

vars == <<abcmeta, observers, pc, call, lastOp, object_counter, made,
          constructed, recent>>

----------------------------------------------------------------------------
(* Observer capability check *)

\* the class of x declares Observer among its bases
Inherits(x) == x \in Subscribers

\* x.update exists
HasUpdate(x) == x \in Subscribers \cup Ducks

\* The attribute names in the __dict__ of the classes of type(x).__mro__.
ClassDictKeys(x) == IF HasUpdate(x) THEN {"__init__", "update"} ELSE {"__init__"}

\* cls.update.__str__(): the printed form of the method object, not its name.
UpdateStr == "<unbound method Observer.update>"

\* Python's != between values of any two types: a bool is never equal to a list.
PyNe(a, b) == \/ a.type # b.type
              \/ a.val # b.val

PyBool(b) == [type |-> "bool", val |-> b]

PyEmptyList == [type |-> "list", val |-> <<>>]

\* Observer.__subclasshook__
SubclassHook(x) == PyNe(PyBool(UpdateStr \in ClassDictKeys(x)), PyEmptyList)

\* isinstance(observer, Observer): with ABCMeta as the metaclass the answer of
\* __subclasshook__ (never NotImplemented here) is the result; without it
\* only inheritance counts.
IsInstance(x, meta) == IF meta THEN SubclassHook(x) ELSE Inherits(x)

----------------------------------------------------------------------------
(* Observer.__init__ *)

\* Strings are sequences of pieces; a decimal digit is always a piece of its
\* own, so that concatenation is the concatenation of the strings.
ClassNames == {<<"NewValueSubscriber">>, <<"Sub">>, <<"Sub", "1">>}

\* The name argument: omitted (None), the empty string, or a string.
NoArg == [given |-> FALSE, val |-> <<>>]

NameArgs == {NoArg, [given |-> TRUE, val |-> <<>>], [given |-> TRUE, val |-> <<"x">>]}

\* ... where the class name plays no part: the class of the demo, with a
\* name or without
ClassNamesCtor == {<<"NewValueSubscriber">>}

NameArgsCtor == {NoArg, [given |-> TRUE, val |-> <<"x">>]}

\* `name if name else ...`: None and the empty string are false
Truthy(arg) == arg.given /\ arg.val # <<>>

Digit(d) == <<"0", "1", "2", "3", "4", "5", "6", "7", "8", "9">>[d + 1]

\* str(n) for n >= 0
RECURSIVE Str(_)
Str(n) == IF n < 10 THEN <<Digit(n)>>
          ELSE Str(n \div 10) \o <<Digit(n % 10)>>

\* A variant without the counter (the older src/observer.py).
NameOfClassOnly(cls, arg, counter) ==
    IF Truthy(arg) THEN arg.val ELSE cls

\* self.name
NameOf(cls, arg, counter) ==
    IF Truthy(arg) THEN arg.val ELSE cls \o Str(counter)

\* A variant that counts on the instance (self._object_counter += 1): the
\* class attribute stays as it is.
CounterAfterInitOnSelf(counter) == counter

\* Observer._object_counter += 1
CounterAfterInit(counter) == counter + 1

NotMade == [made |-> FALSE, cls |-> <<>>, arg |-> NoArg, name |-> <<>>]

\* the object Observer.__init__ leaves behind
NewObserver(cls, arg, counter) ==
    [made |-> TRUE, cls |-> cls, arg |-> arg, name |-> NameOf(cls, arg, counter)]

\* listener = NewValueSubscriber(); listener2 = NewValueSubscriber()
DemoObservers ==
    [x \in Subscribers |->
        NewObserver(<<"NewValueSubscriber">>, NoArg, IF x = "s1" THEN 0 ELSE 1)]

\* the objects that exist: attach and detach can be handed these
Existing == Ducks \cup Plains \cup {x \in Subscribers : made[x].made}

\* The application constructs an Observer and keeps it as x.
Construct(x, cls, arg) ==
    /\ pc \in {"idle", "update"}
    /\ ~made[x].made
    /\ made' = [made EXCEPT ![x] = NewObserver(cls, arg, object_counter)]
    /\ object_counter' = CounterAfterInit(object_counter)
    /\ constructed' = constructed + 1
    /\ UNCHANGED <<abcmeta, observers, pc, call, lastOp, recent>>

\* The application constructs an Observer and drops it.
ConstructDropped(cls, arg) ==
    /\ pc \in {"idle", "update"}
    /\ object_counter' = CounterAfterInit(object_counter)
    /\ constructed' = constructed + 1
    /\ UNCHANGED <<abcmeta, observers, pc, call, lastOp, made, recent>>

----------------------------------------------------------------------------
(* Observable.attach / Observable.detach on one registry *)

\* A variant in which Observers with equal names are equal (an __eq__ and
\* __hash__ on name).
PyEqByName(x, y) ==
    \/ x = y
    \/ /\ x \in Subscribers /\ y \in Subscribers
       /\ made[x].made /\ made[y].made
       /\ made[x].name = made[y].name

\* ==, as the set uses it: Observer defines neither __eq__ nor __hash__, so
\* two objects are equal when they are the same object
PyEq(x, y) == x = y

\* observer in self._observers
SetContains(reg, x) == \E y \in reg : PyEq(y, x)

\* self._observers.add(observer)
SetAdd(reg, x) == IF SetContains(reg, x) THEN reg ELSE reg \cup {x}

\* A variant that empties the set (clear).
SetDiscardClear(reg, x) == {}

\* self._observers.discard(observer)
SetDiscard(reg, x) == {y \in reg : ~PyEq(y, x)}

\* A variant of attach that refuses an observer that is registered already.
AttachOutcomeStrict(reg, x, meta) ==
    IF ~IsInstance(x, meta) \/ x \in reg
    THEN [raised |-> "ValueError", reg |-> reg]
    ELSE [raised |-> None, reg |-> reg \cup {x}]

\* attach: the error raised (None if none) and the registry afterwards
AttachOutcome(reg, x, meta) ==
    IF ~IsInstance(x, meta)
    THEN [raised |-> "ValueError", reg |-> reg]
    ELSE [raised |-> None, reg |-> SetAdd(reg, x)]

\* A variant of detach that removes without looking (set.remove).
DetachOutcomeRemove(reg, x) ==
    IF x \in reg
    THEN [raised |-> None, reg |-> reg \ {x}]
    ELSE [raised |-> "KeyError", reg |-> reg]

\* A variant of detach that forgets to remove.
DetachOutcomeKeep(reg, x) == [raised |-> None, reg |-> reg]

\* detach: the error raised (None if none) and the registry afterwards
DetachOutcome(reg, x) ==
    IF SetContains(reg, x)
    THEN [raised |-> None, reg |-> SetDiscard(reg, x)]
    ELSE [raised |-> None, reg |-> reg]

\* A variant in which the registry is one set shared by all Observables
\* (a class attribute).
StoreShared(regs, o, reg) == [p \in DOMAIN regs |-> reg]

\* self._observers is an attribute of the instance: a call on o writes o's
\* registry only
Store(regs, o, reg) == [regs EXCEPT ![o] = reg]

----------------------------------------------------------------------------
(* notify call records *)

NoDelivery == [x \in Objects |-> 0]

NoCall == [obs |-> None, payload |-> <<>>, start |-> {}, si_used |-> 0,
           pending |-> {}, target |-> None, delivered |-> NoDelivery,
           returned |-> 0, received |-> <<>>, outcome |-> None,
           nested |-> 0, mutated |-> FALSE]

NoOp == [op |-> None, obs |-> None, x |-> None, raised |-> None,
         before |-> {}]

RECURSIVE SumOver(_, _)
SumOver(f, S) == IF S = {} THEN 0
                 ELSE LET x == CHOOSE y \in S : TRUE
                      IN f[x] + SumOver(f, S \ {x})

\* number of update invocations the call has made
Started(c) == SumOver(c.delivered, Objects)

\* Observable.__init__: the registry starts as the empty set
NewRegistries(os) == [o \in os |-> {}]

\* The application has constructed one Observable ...
Init ==
    /\ abcmeta \in BOOLEAN
    /\ observers = NewRegistries({"o1"})
    /\ recent = [o \in {"o1"} |-> {}]
    /\ pc = "idle"
    /\ call = NoCall
    /\ lastOp = NoOp
    /\ made = DemoObservers
    /\ object_counter = 2
    /\ constructed = 2

\* ... or two Observables, with one Observer constructed beside the duck-typed
\* and the plain object.
InitTwo ==
    /\ abcmeta \in BOOLEAN
    /\ observers = NewRegistries(Observables)
    /\ recent = [o \in Observables |-> {}]
    /\ pc = "idle"
    /\ call = NoCall
    /\ lastOp = NoOp
    /\ made = [DemoObservers EXCEPT !["s2"] = NotMade]
    /\ object_counter = 1
    /\ constructed = 1

\* One Observable and no Observer constructed yet.
InitCtor ==
    /\ abcmeta \in BOOLEAN
    /\ observers = NewRegistries({"o1"})
    /\ recent = [o \in {"o1"} |-> {}]
    /\ pc = "idle"
    /\ call = NoCall
    /\ lastOp = NoOp
    /\ made = [x \in Subscribers |-> NotMade]
    /\ object_counter = 0
    /\ constructed = 0

----------------------------------------------------------------------------
(* attach and detach, called by the application or from inside an update *)

\* What a call made from inside an update does to the record of the running
\* notify: p is the iterator's remaining part afterwards.
Reenter(c, o, p, changed) ==
    [c EXCEPT !.pending = p,
              !.nested = @ + 1,
              !.mutated = @ \/ (changed /\ o = c.obs)]

\* The entries a running set iterator has still ahead of it after add(x):
\* nothing changes when x was a member already; a new entry lands before or
\* behind the iterator's position, and an add that resizes the table lays
\* all entries out anew.
PendingAfterAdd(c, o, x, reg) ==
    IF o = c.obs /\ x \in reg /\ x \notin observers[o]
    THEN SUBSET reg
    ELSE {c.pending}

\* ... and after discard(x)
PendingAfterDiscard(c, o, x) ==
    IF o = c.obs THEN c.pending \ {x} ELSE c.pending

\* (a call made by the application, outside notify, closes the record of
\* the last notify)
Attach(o, x) ==
    /\ pc \in {"idle", "update"}
    /\ LET r == AttachOutcome(observers[o], x, abcmeta)
       IN /\ observers' = Store(observers, o, r.reg)
          /\ lastOp' = [op |-> "attach", obs |-> o, x |-> x,
                        raised |-> r.raised, before |-> observers[o]]
          /\ recent' = [recent EXCEPT ![o] = @ \cup {x}]
          /\ IF pc = "idle"
             THEN call' = NoCall
             ELSE \E p \in PendingAfterAdd(call, o, x, r.reg) :
                      call' = Reenter(call, o, p, r.reg # observers[o])
    /\ UNCHANGED <<abcmeta, heap, pc>>

Detach(o, x) ==
    /\ pc \in {"idle", "update"}
    /\ LET r == DetachOutcome(observers[o], x)
       IN /\ observers' = Store(observers, o, r.reg)
          /\ lastOp' = [op |-> "detach", obs |-> o, x |-> x,
                        raised |-> r.raised, before |-> observers[o]]
          /\ recent' = [recent EXCEPT ![o] = @ \ {x}]
          /\ IF pc = "idle"
             THEN call' = NoCall
             ELSE call' = Reenter(call, o, PendingAfterDiscard(call, o, x),
                                  r.reg # observers[o])
    /\ UNCHANGED <<abcmeta, heap, pc>>

----------------------------------------------------------------------------
(* notify *)

PyTuple(t) == [type |-> "tuple", val |-> t]

PyInt(n) == [type |-> "int", val |-> n]

\* A variant that passes the elements one by one: observer.update(*new_state)
UpdateArgsUnpacked(new_state) ==
    [i \in 1..Len(new_state) |-> PyInt(new_state[i])]

\* observer.update(new_state): the arguments of the call are the one tuple
\* into which notify(*new_state) has collected its own arguments
UpdateArgs(new_state) == <<PyTuple(new_state)>>

\* A variant that goes on with the iterator an aborted call has left.
NewCallResumed(o, v) ==
    [obs |-> o, payload |-> v, start |-> observers[o],
     si_used |-> Cardinality(observers[o]),
     pending |-> IF call.outcome = "UpdateRaised" /\ call.obs = o
                 THEN call.pending ELSE observers[o],
     target |-> None, delivered |-> NoDelivery, returned |-> 0,
     received |-> <<>>, outcome |-> "running",
     nested |-> 0, mutated |-> FALSE]

\* `for observer in self._observers`: the iterator is created over the set
NewCall(o, v) ==
    [obs |-> o, payload |-> v, start |-> observers[o],
     si_used |-> Cardinality(observers[o]), pending |-> observers[o],
     target |-> None, delivered |-> NoDelivery, returned |-> 0,
     received |-> <<>>, outcome |-> "running",
     nested |-> 0, mutated |-> FALSE]

\* A variant of the iteration that stops one entry early.
SetIterNextShort(c, reg) ==
    IF Cardinality(reg) # c.si_used THEN {"RuntimeError"}
    ELSE IF Cardinality(c.pending) <= 1 THEN {"StopIteration"}
    ELSE c.pending

\* One step of the set iterator: it fails when the set's size differs from
\* the size at creation, stops when no entry is ahead, else yields one of
\* the entries ahead (the order is the hash table's).
SetIterNext(c, reg) ==
    IF Cardinality(reg) # c.si_used THEN {"RuntimeError"}
    ELSE IF c.pending = {} THEN {"StopIteration"}
    ELSE c.pending

\* the notify call ends: its outcome is what the caller sees
Finish(c, how) == [c EXCEPT !.outcome = how]

\* (lastOp is kept when it was a call on the same Observable, so that the
\* record of this notify can be read together with the call before it)
NotifyBegin(o, v) ==
    /\ pc = "idle"
    /\ call' = NewCall(o, v)
    /\ pc' = "iter"
    /\ lastOp' = IF lastOp.obs = o THEN lastOp ELSE NoOp
    /\ UNCHANGED <<abcmeta, heap, recent, observers>>

NotifySizeChanged ==
    /\ pc = "iter"
    /\ "RuntimeError" \in SetIterNext(call, observers[call.obs])
    /\ call' = Finish(call, "RuntimeError")
    /\ pc' = "idle"
    /\ UNCHANGED <<abcmeta, heap, recent, observers, lastOp>>

NotifyReturn ==
    /\ pc = "iter"
    /\ "StopIteration" \in SetIterNext(call, observers[call.obs])
    /\ call' = Finish(call, "returned")
    /\ pc' = "idle"
    /\ UNCHANGED <<abcmeta, heap, recent, observers, lastOp>>

\* observer.update(new_state): the attribute lookup fails on an object
\* without update
NotifyAttributeError(x) ==
    /\ pc = "iter"
    /\ x \in SetIterNext(call, observers[call.obs]) \cap Objects
    /\ ~HasUpdate(x)
    /\ call' = Finish([call EXCEPT !.pending = @ \ {x}, !.target = x],
                      "AttributeError")
    /\ pc' = "idle"
    /\ UNCHANGED <<abcmeta, heap, recent, observers, lastOp>>

\* A variant that hands the update to another thread and goes on.
NotifyInvokeAsync(x) ==
    /\ pc = "iter"
    /\ x \in SetIterNext(call, observers[call.obs]) \cap Objects
    /\ HasUpdate(x)
    /\ Started(call) < MaxUpdates
    /\ call' = [call EXCEPT !.pending = @ \ {x},
                            !.target = x,
                            !.delivered[x] = @ + 1,
                            !.received = UpdateArgs(call.payload)]
    /\ pc' = "iter"
    /\ UNCHANGED <<abcmeta, heap, recent, observers, lastOp>>

\* observer.update(new_state) is entered
NotifyInvoke(x) ==
    /\ pc = "iter"
    /\ x \in SetIterNext(call, observers[call.obs]) \cap Objects
    /\ HasUpdate(x)
    /\ Started(call) < MaxUpdates
    /\ call' = [call EXCEPT !.pending = @ \ {x},
                            !.target = x,
                            !.delivered[x] = @ + 1,
                            !.received = UpdateArgs(call.payload)]
    /\ pc' = "update"
    /\ UNCHANGED <<abcmeta, heap, recent, observers, lastOp>>

\* update returns: the loop goes on
UpdateReturn ==
    /\ pc = "update"
    /\ call' = [call EXCEPT !.returned = @ + 1, !.target = None]
    /\ pc' = "iter"
    /\ UNCHANGED <<abcmeta, heap, recent, observers, lastOp>>

\* A variant that catches the error of an update and goes on with the loop.
UpdateRaiseCaught ==
    /\ pc = "update"
    /\ call' = [call EXCEPT !.outcome = "UpdateRaised"]
    /\ pc' = "iter"
    /\ UNCHANGED <<abcmeta, heap, recent, observers, lastOp>>

\* update raises: notify has no try/except, the loop is left
UpdateRaise ==
    /\ pc = "update"
    /\ call' = Finish(call, "UpdateRaised")
    /\ pc' = "idle"
    /\ UNCHANGED <<abcmeta, heap, recent, observers, lastOp>>

\* a callback may make at most n attach/detach calls during one notify call
NestedAllowed(n) == pc = "update" => call.nested < n

Live == DOMAIN observers

Next ==
    \/ \E o \in Live, x \in Existing : NestedAllowed(MaxReentrant) /\ Attach(o, x)
    \/ \E o \in Live, x \in Existing : NestedAllowed(MaxReentrant) /\ Detach(o, x)
    \/ \E o \in Live, v \in Payloads : NotifyBegin(o, v)
    \/ NotifySizeChanged
    \/ NotifyReturn
    \/ \E x \in Objects : NotifyAttributeError(x)
    \/ \E x \in Objects : NotifyInvoke(x)
    \/ UpdateReturn
    \/ UpdateRaise

NextTwo ==
    \/ \E o \in Live, x \in Existing : NestedAllowed(MaxReentrantTwo) /\ Attach(o, x)
    \/ \E o \in Live, x \in Existing : NestedAllowed(MaxReentrantTwo) /\ Detach(o, x)
    \/ \E o \in Live, v \in PayloadsTwo : NotifyBegin(o, v)
    \/ NotifySizeChanged
    \/ NotifyReturn
    \/ \E x \in Objects : NotifyAttributeError(x)
    \/ \E x \in Objects : NotifyInvoke(x)
    \/ UpdateReturn
    \/ UpdateRaise

\* the application constructs its Observers while it uses the Observable
NextCtor ==
    \/ \E x \in Subscribers, cls \in ClassNamesCtor, arg \in NameArgsCtor :
           constructed < MaxConstructed /\ Construct(x, cls, arg)
    \/ \E cls \in ClassNamesCtor, arg \in NameArgsCtor :
           constructed < MaxConstructed /\ ConstructDropped(cls, arg)
    \/ \E o \in Live, x \in Existing : NestedAllowed(MaxReentrantTwo) /\ Attach(o, x)
    \/ \E o \in Live, x \in Existing : NestedAllowed(MaxReentrantTwo) /\ Detach(o, x)
    \/ \E o \in Live, v \in PayloadsTwo : NotifyBegin(o, v)
    \/ NotifySizeChanged
    \/ NotifyReturn
    \/ \E x \in Objects : NotifyAttributeError(x)
    \/ \E x \in Objects : NotifyInvoke(x)
    \/ UpdateReturn
    \/ UpdateRaise

\* the application only constructs Observers
NextNames ==
    \/ \E x \in Subscribers, cls \in ClassNames, arg \in NameArgs :
           constructed < MaxConstructedNames /\ Construct(x, cls, arg)
    \/ \E cls \in ClassNames, arg \in NameArgs :
           constructed < MaxConstructedNames /\ ConstructDropped(cls, arg)

\* one Observable, callbacks that re-enter it
Spec == Init /\ [][Next]_vars

\* Observers constructed at any time
SpecCtor == InitCtor /\ [][NextCtor]_vars

\* construction only
SpecNames == InitCtor /\ [][NextNames]_vars

\* two Observables
SpecTwo == InitTwo /\ [][NextTwo]_vars

TypeOK ==
    /\ abcmeta \in BOOLEAN
    /\ observers \in [Live -> SUBSET Objects]
    /\ pc \in {"idle", "iter", "update"}

----------------------------------------------------------------------------
(* Properties *)

\* the observers whose update the call has invoked
Invoked(c) == {x \in Objects : c.delivered[x] > 0}

\* the last attach/detach call ended before the notify call `call` began:
\* no callback of the call has made an attach/detach call
Following == call.obs = lastOp.obs /\ call.nested = 0

\* the last call was attach(x) with x registered already
RepeatAttach == lastOp.op = "attach" /\ lastOp.x \in lastOp.before

\* C1: attaching an observer that is registered already raises no error and
\* leaves the registry as it was, and a notify that follows and returns has
\* invoked that observer's update exactly once.
C1_IdempotentAttach ==
    RepeatAttach =>
        /\ lastOp.raised = None
        /\ observers[lastOp.obs] = lastOp.before
        /\ (Following /\ call.outcome = "returned"
                => call.delivered[lastOp.x] = 1)

C1_Witness ==
    /\ RepeatAttach
    /\ Following
    /\ call.outcome = "returned"
    /\ call.delivered[lastOp.x] = 1
    /\ Cardinality(observers[lastOp.obs]) >= 2

\* C2: a notify call that returns, and during which the registry stayed what
\* it was at the start of the call, has invoked update exactly once on every
\* member of the registry and on no other object.
C2_FullFanOut ==
    call.outcome = "returned" /\ ~call.mutated =>
        \A x \in Objects :
            call.delivered[x] = IF x \in observers[call.obs] THEN 1 ELSE 0

C2_Witness ==
    /\ call.outcome = "returned"
    /\ ~call.mutated
    /\ Cardinality(observers[call.obs]) >= 2
    /\ \A x \in observers[call.obs] : call.delivered[x] = 1


\* C3: when a notify call has ended (by returning, or by the iteration
\* failing) without any update raising, the observers whose update it invoked
\* are exactly the registry as it stood when the call began, whatever the
\* callbacks attached or detached meanwhile.
C3_DeliversToStartRegistry ==
    call.outcome \in {"returned", "RuntimeError"} => Invoked(call) = call.start

\* C4: attach of an object without update raises ValueError and leaves the
\* registry as it was.
C4_CapabilityRejection ==
    lastOp.op = "attach" /\ ~HasUpdate(lastOp.x) =>
        /\ lastOp.raised = "ValueError"
        /\ observers[lastOp.obs] = lastOp.before

\* C5: attach accepts an object exactly when it has update, whether or not
\* its class inherits Observer; an accepted object is in the registry.
C5_StructuralCheck ==
    lastOp.op = "attach" =>
        /\ lastOp.raised = None <=> HasUpdate(lastOp.x)
        /\ lastOp.raised = None => lastOp.x \in observers[lastOp.obs]

\* C6: detach of an object that is not in the registry raises no error and
\* leaves the registry as it was.
C6_DetachNoOp ==
    lastOp.op = "detach" /\ lastOp.x \notin lastOp.before =>
        /\ lastOp.raised = None
        /\ observers[lastOp.obs] = lastOp.before

C6_Witness ==
    /\ lastOp.op = "detach"
    /\ lastOp.x \notin lastOp.before
    /\ lastOp.raised = None
    /\ observers[lastOp.obs] = lastOp.before
    /\ observers[lastOp.obs] # {}

\* the notify call `call` invokes an update in this step
InvokedNow(x) == call'.obs = call.obs /\ call'.delivered[x] > call.delivered[x]

\* the last call was detach(b) with b registered
DetachedMember == lastOp.op = "detach" /\ lastOp.x \in lastOp.before

\* C7: a notify that follows detach(b) never invokes b.update; when it
\* returns it has invoked update once on every observer still registered;
\* with nothing left registered it invokes nothing and raises nothing.  And
\* no notify ever invokes update on an object that is not registered at that
\* moment.
C7_PostDetachIsolation ==
    /\ [](DetachedMember /\ Following =>
            /\ call.delivered[lastOp.x] = 0
            /\ call.outcome = "returned" =>
                   \A x \in observers[call.obs] : call.delivered[x] = 1
            /\ observers[call.obs] = {} =>
                   /\ call.outcome \in {"running", "returned"}
                   /\ Started(call) = 0)
    /\ [][\A x \in Objects : InvokedNow(x) => x \in observers[call.obs]]_vars

C7_Witness ==
    /\ DetachedMember
    /\ Following
    /\ call.outcome = "returned"
    /\ call.delivered[lastOp.x] = 0
    /\ observers[call.obs] # {}
    /\ \A x \in observers[call.obs] : call.delivered[x] = 1

\* C8: with two Observables, a step changes the registry of at most one of
\* them, the one whose attach or detach was called; a notify invokes update
\* only on members of its own Observable's registry, and when it returns
\* (the registry having stayed the same) it has invoked every one of them.
C8_Independence ==
    /\ [][\A o \in Live : observers'[o] # observers[o] =>
              /\ lastOp'.obs = o
              /\ \A p \in Live \ {o} : observers'[p] = observers[p]]_vars
    /\ [][\A x \in Objects : InvokedNow(x) => x \in observers[call.obs]]_vars
    /\ [](call.outcome = "returned" /\ ~call.mutated =>
            /\ \A x \in observers[call.obs] : call.delivered[x] = 1
            /\ \A p \in Live \ {call.obs} :
                   \A x \in observers[p] \ observers[call.obs] :
                       call.delivered[x] = 0)

C8_Witness ==
    /\ call.outcome = "returned"
    /\ ~call.mutated
    /\ \E x \in Objects :
           /\ x \in observers["o1"] \ observers["o2"]
           /\ call.obs = "o2"
           /\ call.delivered[x] = 0
           /\ observers["o2"] # {}

\* C9: when an update raises, the notify call ends there with that error:
\* every earlier update had returned, the raising one is the last the call
\* invoked, and the call invokes nothing afterwards.
C9_FailFast ==
    /\ [](call.outcome = "UpdateRaised" =>
            /\ pc = "idle"
            /\ call.target # None
            /\ Started(call) = call.returned + 1)
    /\ [][call.outcome = "UpdateRaised" /\ call'.outcome = "UpdateRaised"
             => call'.delivered = call.delivered]_vars

C9_Witness ==
    /\ call.outcome = "UpdateRaised"
    /\ pc = "idle"
    /\ call.pending # {}
    /\ \E x \in call.pending : call.delivered[x] = 0

\* C10: at most one update is running at any time, and only inside a running
\* notify; when notify has returned, every update it invoked has returned
\* and the iteration has nothing left.
C10_Synchronous ==
    /\ Started(call) - call.returned \in {0, 1}
    /\ pc = "update" <=> (call.outcome = "running" /\ Started(call) = call.returned + 1)
    /\ pc = "update" <=> (call.outcome = "running" /\ call.target # None)
    /\ call.outcome = "returned" =>
           /\ pc = "idle"
           /\ Started(call) = call.returned
           /\ call.pending = {}
           /\ call.target = None

C10_Witness ==
    /\ call.outcome = "returned"
    /\ pc = "idle"
    /\ call.returned >= 2
    /\ Started(call) = call.returned

\* C11: every update a notify call invokes is passed exactly one argument,
\* the tuple of the arguments of that notify call in their order, whatever
\* their number; the payload of a call is the same for all its updates.
C11_PayloadFidelity ==
    /\ [](Started(call) > 0 =>
            /\ Len(call.received) = 1
            /\ call.received[1].type = "tuple"
            /\ call.received[1].val = call.payload)
    /\ [][\A x \in Objects : InvokedNow(x) =>
              /\ call'.payload = call.payload
              /\ call'.received = <<PyTuple(call.payload)>>]_vars

C11_Witness ==
    /\ call.returned >= 2
    /\ Len(call.payload) = 2
    /\ call.received = <<PyTuple(<<5, 6>>)>>

\* s1 and s2 are two Observer objects with the same name
SameName ==
    /\ made["s1"].made
    /\ made["s2"].made
    /\ made["s1"].name = made["s2"].name

\* C12: when two distinct Observer objects carry the same name, attach of
\* one adds that object whether or not the other is registered, detach of
\* one removes that object only, and a notify that returns with both
\* registered, the registry having stayed what it was at the start of the
\* call, has invoked update once on each.
C12_IdentityNotName ==
    SameName =>
        /\ lastOp.op = "attach" /\ lastOp.x \in Subscribers =>
               /\ lastOp.raised = None
               /\ observers[lastOp.obs] = lastOp.before \cup {lastOp.x}
        /\ lastOp.op = "detach" /\ lastOp.x \in Subscribers =>
               observers[lastOp.obs] = lastOp.before \ {lastOp.x}
        /\ /\ call.outcome = "returned"
           /\ ~call.mutated
           /\ Subscribers \subseteq observers[call.obs]
           => \A x \in Subscribers : call.delivered[x] = 1

C12_Witness ==
    /\ SameName
    /\ lastOp.op = "attach"
    /\ lastOp.x \in Subscribers
    /\ Subscribers \ {lastOp.x} \subseteq lastOp.before
    /\ lastOp.x \notin lastOp.before
    /\ call.outcome = "returned"
    /\ ~call.mutated
    /\ \A x \in Subscribers : call.delivered[x] = 1

\* C13: the registry of every Observable is the set of the objects that
\* attach accepts (isinstance holds) and whose most recent attach or detach
\* call on that Observable was an attach call: empty while no call was made;
\* and detach(x) leaves the registry it found, without x.
C13_RegistryReference ==
    /\ \A o \in Live :
           observers[o] = {x \in recent[o] : IsInstance(x, abcmeta)}
    /\ lastOp.op = "detach" =>
           observers[lastOp.obs] = lastOp.before \ {lastOp.x}

C13_Witness ==
    /\ lastOp.op = "detach"
    /\ lastOp.x \in lastOp.before
    /\ observers["o1"] # {}
    /\ observers["o1"] = lastOp.before \ {lastOp.x}
    /\ observers["o1"] = {x \in recent["o1"] : IsInstance(x, abcmeta)}

\* C14: Observer._object_counter is the number of Observer.__init__ calls
\* made so far; a construction, with or without a name, raises it by one and
\* touches nothing of the Observables, and no other step changes it.
C14_CreationCounter ==
    /\ [](object_counter = constructed)
    /\ [][constructed' # constructed =>
              /\ constructed' = constructed + 1
              /\ object_counter' = object_counter + 1
              /\ UNCHANGED <<observers, pc, call, lastOp>>]_vars
    /\ [][<<observers, pc, call, lastOp>>' # <<observers, pc, call, lastOp>>
              => object_counter' = object_counter]_vars

C14_Witness ==
    /\ object_counter = 3
    /\ \E x \in Subscribers : made[x].made /\ Truthy(made[x].arg)
    /\ \E x \in Subscribers : made[x].made /\ ~made[x].arg.given
    /\ call.outcome = "returned"
    /\ call.returned >= 1

\* the notify call `call` has had no attach/detach call from its callbacks
NoReentry == call.outcome # None /\ call.nested = 0

\* C15: while and after a notify call whose callbacks make no attach/detach
\* call, the registry is what it was when the call began, also when an
\* update raised; the next notify on that Observable starts over the whole
\* registry, the observers the aborted call skipped included, and when it
\* returns it has invoked update on every one of them.
C15_NotifyKeepsRegistry ==
    /\ [](NoReentry => observers[call.obs] = call.start)
    /\ [][/\ NoReentry
          /\ call.outcome = "UpdateRaised"
          /\ call'.outcome = "running"
          /\ call'.obs = call.obs
          => /\ call'.start = call.start
             /\ call'.pending = call.start
             /\ call.pending \subseteq call'.pending]_vars
    /\ [](NoReentry /\ call.outcome = "returned" =>
            \A x \in call.start : call.delivered[x] = 1)

C15_Witness ==
    /\ NoReentry
    /\ call.outcome = "UpdateRaised"
    /\ call.pending # {}
    /\ Cardinality(call.start) >= 2
    /\ observers[call.obs] = call.start

DigitPieces == {Digit(d) : d \in 0..9}

EndsInDigit(cls) == cls[Len(cls)] \in DigitPieces

\* s1 and s2 are both constructed without a name
BothUnnamed ==
    /\ made["s1"].made /\ ~made["s1"].arg.given
    /\ made["s2"].made /\ ~made["s2"].arg.given

\* x's name is its class name followed by the decimal form of a value the
\* counter has had
DefaultName(x) ==
    \E k \in 0..(object_counter - 1) : made[x].name = made[x].cls \o Str(k)

\* C16 as stated: two Observers constructed without a name, of whatever
\* concrete types, have different names, each the class name followed by
\* the counter.
C16_UniqueDefaultNames ==
    BothUnnamed =>
        /\ made["s1"].name # made["s2"].name
        /\ DefaultName("s1")
        /\ DefaultName("s2")

\* C16, amended: two Observers constructed without a name have different
\* names when they are of the same concrete type, or of concrete types whose
\* names do not end in a decimal digit; each name is the class name followed
\* by the counter.
C16_UniqueDefaultNamesAmended ==
    BothUnnamed =>
        /\ DefaultName("s1")
        /\ DefaultName("s2")
        /\ \/ made["s1"].cls = made["s2"].cls
           \/ ~EndsInDigit(made["s1"].cls) /\ ~EndsInDigit(made["s2"].cls)
           => made["s1"].name # made["s2"].name

C16_Witness ==
    /\ BothUnnamed
    /\ made["s1"].cls = made["s2"].cls
    /\ object_counter >= 11
    /\ made["s1"].name = made["s1"].cls \o <<"1", "0">>
    /\ made["s1"].name # made["s2"].name

====
